---- MODULE Spec2Model ----
(***************************************************************************)
(* EduAi WhatsApp tutor: the conversation state machine of                 *)
(* app/handlers.py over the store of app/db.py, with the validators of     *)
(* app/utils.py and the lesson generator of app/llm.py.                    *)
(*                                                                         *)
(* Python strings are sequences of one-character strings, so that strip,   *)
(* lower, title, int(), split and the regular expressions are computed     *)
(* character by character as the library does.  None is the empty tuple    *)
(* and a present value x is the one-element tuple <<x>>.                   *)
(***************************************************************************)
EXTENDS Integers, Sequences, FiniteSets, TLC

\* ------------------------------------------------------------------------
\* Bounds of the model
\* ------------------------------------------------------------------------
\* most Progress rows the store holds in a run
MaxProgress == 1
\* most Progress rows the store holds in a run with restarts and failures
MaxLessons == 2
\* largest lesson_step a /next may produce in a run
MaxLessonStep == 2

\* ------------------------------------------------------------------------
\* Python str primitives
\* ------------------------------------------------------------------------
None == <<>>
Some(x) == <<x>>

UpperLetters == <<"A", "B", "C", "D", "E", "F", "G", "H", "I", "J", "K", "L", "M", "N", "O", "P", "Q", "R", "S", "T", "U", "V", "W", "X", "Y", "Z">>
LowerLetters == <<"a", "b", "c", "d", "e", "f", "g", "h", "i", "j", "k", "l", "m", "n", "o", "p", "q", "r", "s", "t", "u", "v", "w", "x", "y", "z">>
Digits == <<"0", "1", "2", "3", "4", "5", "6", "7", "8", "9">>
Whitespace == {" ", "\n"}

SeqIndex(seq, c) == CHOOSE i \in 1..Len(seq) : seq[i] = c
IsUpper(c) == \E i \in 1..Len(UpperLetters) : UpperLetters[i] = c
IsLower(c) == \E i \in 1..Len(LowerLetters) : LowerLetters[i] = c
IsLetter(c) == IsUpper(c) \/ IsLower(c)
IsDigit(c) == \E i \in 1..Len(Digits) : Digits[i] = c
LowerChar(c) == IF IsUpper(c) THEN LowerLetters[SeqIndex(UpperLetters, c)] ELSE c
UpperChar(c) == IF IsLower(c) THEN UpperLetters[SeqIndex(LowerLetters, c)] ELSE c

\* str.lower()
lower(s) == [i \in 1..Len(s) |-> LowerChar(s[i])]

\* str.title(): a letter is upper-cased when it follows a non-letter (or
\* starts the string) and lower-cased otherwise
title(s) ==
    [i \in 1..Len(s) |->
        IF i = 1 \/ ~IsLetter(s[i - 1]) THEN UpperChar(s[i]) ELSE LowerChar(s[i])]

\* str.strip(): drop leading and trailing whitespace
strip(s) ==
    IF \A i \in 1..Len(s) : s[i] \in Whitespace THEN <<>>
    ELSE LET first == CHOOSE i \in 1..Len(s) :
                         s[i] \notin Whitespace /\ \A j \in 1..(i - 1) : s[j] \in Whitespace
             last == CHOOSE i \in 1..Len(s) :
                         s[i] \notin Whitespace /\ \A j \in (i + 1)..Len(s) : s[j] \in Whitespace
         IN SubSeq(s, first, last)

\* str.strip('?')
stripChar(s, ch) ==
    IF \A i \in 1..Len(s) : s[i] = ch THEN <<>>
    ELSE LET first == CHOOSE i \in 1..Len(s) : s[i] # ch /\ \A j \in 1..(i - 1) : s[j] = ch
             last == CHOOSE i \in 1..Len(s) : s[i] # ch /\ \A j \in (i + 1)..Len(s) : s[j] = ch
         IN SubSeq(s, first, last)

\* str.startswith(prefix)
startswith(s, prefix) ==
    Len(s) >= Len(prefix) /\ SubSeq(s, 1, Len(prefix)) = prefix

\* `sub in s`
contains(s, sub) ==
    \E i \in 1..(Len(s) - Len(sub) + 1) : SubSeq(s, i, i + Len(sub) - 1) = sub

\* str.split(sep) for a one-character separator
RECURSIVE split(_, _)
split(s, sep) ==
    IF \A i \in 1..Len(s) : s[i] # sep THEN <<s>>
    ELSE LET k == CHOOSE i \in 1..Len(s) : s[i] = sep /\ \A j \in 1..(i - 1) : s[j] # sep
         IN <<SubSeq(s, 1, k - 1)>> \o split(SubSeq(s, k + 1, Len(s)), sep)

\* sep.join(parts)
RECURSIVE join(_, _)
join(sep, parts) ==
    IF Len(parts) = 0 THEN <<>>
    ELSE IF Len(parts) = 1 THEN parts[1]
    ELSE parts[1] \o sep \o join(sep, Tail(parts))

\* value of a run of decimal digits
RECURSIVE DigitsValue(_)
DigitsValue(s) ==
    IF Len(s) = 0 THEN 0
    ELSE 10 * DigitsValue(SubSeq(s, 1, Len(s) - 1)) + (SeqIndex(Digits, s[Len(s)]) - 1)

\* int(s): None stands for ValueError.  An optional sign, then decimal
\* digits, which single underscores may separate (surrounding whitespace is
\* ignored by int itself).
int(s) ==
    LET t == strip(s)
        signed == Len(t) > 0 /\ t[1] \in {"+", "-"}
        body == IF signed THEN Tail(t) ELSE t
        digits == SelectSeq(body, LAMBDA c : c # "_")
    IN IF /\ Len(body) > 0
          /\ \A i \in 1..Len(body) : IsDigit(body[i]) \/ body[i] = "_"
          /\ body[1] # "_" /\ body[Len(body)] # "_"
          /\ \A i \in 1..(Len(body) - 1) : ~(body[i] = "_" /\ body[i + 1] = "_")
       THEN Some(IF signed /\ t[1] = "-" THEN 0 - DigitsValue(digits) ELSE DigitsValue(digits))
       ELSE None

\* ------------------------------------------------------------------------
\* Validators (app/utils.py)
\* ------------------------------------------------------------------------
MinAge == 3
MaxAge == 100

\* mutant of validate_age: no check of the range
validate_age_unbounded(age_input) == int(strip(age_input))

\* validate_age: the age as <<a>>, or None
validate_age(age_input) ==
    LET parsed == int(strip(age_input))
    IN IF parsed # None /\ MinAge <= parsed[1] /\ parsed[1] <= MaxAge THEN parsed ELSE None

\* subject_mapping, as <<key, canonical name>> pairs
subject_mapping == <<
    <<<<"m", "a", "t", "h">>,
      <<"M", "a", "t", "h", "e", "m", "a", "t", "i", "c", "s">>>>,
    <<<<"m", "a", "t", "h", "s">>,
      <<"M", "a", "t", "h", "e", "m", "a", "t", "i", "c", "s">>>>,
    <<<<"m", "a", "t", "h", "e", "m", "a", "t", "i", "c", "s">>,
      <<"M", "a", "t", "h", "e", "m", "a", "t", "i", "c", "s">>>>,
    <<<<"s", "c", "i", "e", "n", "c", "e">>,
      <<"S", "c", "i", "e", "n", "c", "e">>>>,
    <<<<"e", "n", "g", "l", "i", "s", "h">>,
      <<"E", "n", "g", "l", "i", "s", "h">>>>,
    <<<<"h", "i", "s", "t", "o", "r", "y">>,
      <<"H", "i", "s", "t", "o", "r", "y">>>>,
    <<<<"g", "e", "o", "g", "r", "a", "p", "h", "y">>,
      <<"G", "e", "o", "g", "r", "a", "p", "h", "y">>>>,
    <<<<"p", "h", "y", "s", "i", "c", "s">>,
      <<"P", "h", "y", "s", "i", "c", "s">>>>,
    <<<<"c", "h", "e", "m", "i", "s", "t", "r", "y">>,
      <<"C", "h", "e", "m", "i", "s", "t", "r", "y">>>>,
    <<<<"b", "i", "o", "l", "o", "g", "y">>,
      <<"B", "i", "o", "l", "o", "g", "y">>>>,
    <<<<"l", "i", "t", "e", "r", "a", "t", "u", "r", "e">>,
      <<"L", "i", "t", "e", "r", "a", "t", "u", "r", "e">>>>,
    <<<<"a", "r", "t">>,
      <<"A", "r", "t">>>>,
    <<<<"m", "u", "s", "i", "c">>,
      <<"M", "u", "s", "i", "c">>>>,
    <<<<"p", "e">>,
      <<"P", "h", "y", "s", "i", "c", "a", "l", " ", "E", "d", "u", "c", "a", "t", "i", "o", "n">>>>,
    <<<<"s", "p", "o", "r", "t", "s">>,
      <<"S", "p", "o", "r", "t", "s">>>>,
    <<<<"c", "o", "m", "p", "u", "t", "e", "r">>,
      <<"C", "o", "m", "p", "u", "t", "e", "r", " ", "S", "c", "i", "e", "n", "c", "e">>>>,
    <<<<"p", "r", "o", "g", "r", "a", "m", "m", "i", "n", "g">>,
      <<"P", "r", "o", "g", "r", "a", "m", "m", "i", "n", "g">>>>,
    <<<<"c", "o", "d", "i", "n", "g">>,
      <<"P", "r", "o", "g", "r", "a", "m", "m", "i", "n", "g">>>>
>>

MaxSubjects == 10

\* one token of validate_subjects: the list of names it contributes
SubjectOf(token) ==
    LET subject == lower(strip(token))
    IN IF \E i \in 1..Len(subject_mapping) : subject_mapping[i][1] = subject
       THEN <<subject_mapping[CHOOSE i \in 1..Len(subject_mapping) :
                                 subject_mapping[i][1] = subject][2]>>
       ELSE IF Len(subject) > 2 THEN <<title(subject)>>
       ELSE <<>>

RECURSIVE SubjectsOf(_)
SubjectsOf(tokens) ==
    IF Len(tokens) = 0 THEN <<>>
    ELSE SubjectOf(Head(tokens)) \o SubjectsOf(Tail(tokens))

\* validate_subjects: the list of canonical names, at most the first ten
validate_subjects(subjects_input) ==
    IF Len(subjects_input) = 0 THEN <<>>
    ELSE LET subjects == SubjectsOf(split(subjects_input, ","))
         IN SubSeq(subjects, 1, IF Len(subjects) < MaxSubjects THEN Len(subjects) ELSE MaxSubjects)

\* a character of the class [A-Za-z\s'-]
IsCountryChar(c) == IsLetter(c) \/ c \in Whitespace \/ c \in {"'", "-"}

\* validate_country: the title-cased country as <<country>>, or None
validate_country(country_input) ==
    IF Len(country_input) = 0 \/ Len(strip(country_input)) < 2 THEN None
    ELSE LET country == title(strip(country_input))
         IN IF \A i \in 1..Len(country) : IsCountryChar(country[i])
            THEN Some(country) ELSE None

TextModes == {<<"t", "e", "x", "t">>, <<"r", "e", "a", "d", "i", "n", "g">>, <<"w", "r", "i", "t", "t", "e", "n">>}
AudioModes == {<<"a", "u", "d", "i", "o">>, <<"v", "o", "i", "c", "e">>, <<"s", "p", "o", "k", "e", "n">>, <<"l", "i", "s", "t", "e", "n", "i", "n", "g">>}
ModeText == <<"t", "e", "x", "t">>
ModeAudio == <<"a", "u", "d", "i", "o">>

\* validate_learning_mode: <<'text'>>, <<'audio'>> or None
validate_learning_mode(mode_input) ==
    LET mode == lower(strip(mode_input))
    IN IF mode \in TextModes THEN Some(ModeText)
       ELSE IF mode \in AudioModes THEN Some(ModeAudio)
       ELSE None

\* json.dumps of a list of strings
RECURSIVE Quoted(_)
Quoted(subjects) ==
    IF Len(subjects) = 0 THEN <<>>
    ELSE <<(<<"\"">> \o Head(subjects) \o <<"\"">>)>> \o Quoted(Tail(subjects))

store_subjects_as_json(subjects) ==
    <<"[">> \o join(<<",", " ">>, Quoted(subjects)) \o <<"]">>

CmdLesson == <<"/", "l", "e", "s", "s", "o", "n">>
CmdHelp == <<"/", "h", "e", "l", "p">>
CmdNext == <<"/", "n", "e", "x", "t">>

\* mutant of parse_lesson_command: the command word alone yields the topic
\* 'general'
parse_lesson_command_defaulting(message) ==
    IF lower(strip(message)) = CmdLesson
    THEN Some(<<"g", "e", "n", "e", "r", "a", "l">>)
    ELSE LET m == strip(message)
             n == Len(CmdLesson)
         IN IF ~startswith(lower(m), CmdLesson) \/ m[n + 1] \notin Whitespace THEN None
            ELSE Some(strip(SubSeq(m, n + 2, Len(m))))

\* parse_lesson_command: re.match(r'/lesson\s+(.+)', message.strip(), IGNORECASE).
\* \s+ takes the whole run of whitespace after the command word and (.+) the
\* rest of that line; the topic is group 1 stripped, as <<topic>>, or None.
parse_lesson_command(message) ==
    LET m == strip(message)
        n == Len(CmdLesson)
    IN IF ~startswith(lower(m), CmdLesson) THEN None
       ELSE IF Len(m) = n \/ m[n + 1] \notin Whitespace THEN None
       ELSE LET start == CHOOSE i \in (n + 2)..Len(m) :
                            m[i] \notin Whitespace /\ \A j \in (n + 1)..(i - 1) : m[j] \in Whitespace
                stop == IF \E i \in start..Len(m) : m[i] = "\n"
                        THEN (CHOOSE i \in start..Len(m) :
                                 m[i] = "\n" /\ \A j \in start..(i - 1) : m[j] # "\n") - 1
                        ELSE Len(m)
            IN Some(strip(SubSeq(m, start, stop)))

\* get_greeting_emoji: the emoji of the age band
get_greeting_emoji(age_group) ==
    IF age_group <= 8 THEN "star"
    ELSE IF age_group <= 12 THEN "books"
    ELSE IF age_group <= 16 THEN "cap"
    ELSE "wave"


\* ------------------------------------------------------------------------
\* Inputs
\* ------------------------------------------------------------------------
PhoneNumbers == {<<"+", "1", "5", "5", "5", "0", "0", "0", "1">>}

Messages == {
    <<"/", "h", "e", "l", "p">>,
    <<"/", "l", "e", "s", "s", "o", "n">>,
    <<"/", "l", "e", "s", "s", "o", "n", " ">>,
    <<"/", "l", "e", "s", "s", "o", "n", " ", "f", "r", "a", "c", "t", "i", "o", "n", "s">>,
    <<"/", "n", "e", "x", "t">>,
    <<" ", "7">>,
    <<"2", "5">>,
    <<"2">>,
    <<"0", "0", "0", "0", "0", "0", "0", "0", "0", "0", "0", "0", "0", "0", "0", "0", "0", "0", "0", "0", "0", "0", "0", "0", "0", "0", "0", "0", "0", "0", "0", "0", "0", "0", "0", "0", "0", "0", "0", "0", "0", "0", "0", "0", "0", "0", "0", "0", "0", "0", "7">>,
    <<"i", "n", "d", "i", "a">>,
    <<"m", "a", "t", "h", ",", "p", "e">>,
    <<"T", "e", "x", "t">>,
    <<"E", "N">>,
    <<>>
}

\* the inbound texts of the runs that exercise lessons, restarts and failures
LessonMessages == {
    <<"/", "l", "e", "s", "s", "o", "n", " ", "A", "d", "d", "i", "t", "i", "o", "n", " ", "o", "f", " ", "F", "r", "a", "c", "t", "i", "o", "n", "s">>,
    <<"/", "l", "e", "s", "s", "o", "n", " ", "a", "r", "t">>,
    <<"/", "n", "e", "x", "t">>,
    <<"i", "n", "d", "i", "a">>
}

\* inbound texts that begin with a command word and go on
CommandLookalikes == {
    <<"/", "h", "e", "l", "p", "m", "e">>,
    <<"/", "l", "e", "s", "s", "o", "n", "s">>,
    <<"/", "n", "e", "x", "t", "l", "e", "v", "e", "l">>
}

\* the age a second user answers with
TeenAge == <<"1", "4">>

\* every inbound text of the model
Inputs == Messages \cup LessonMessages \cup CommandLookalikes \cup {TeenAge}

\* what the remote completion call can do: raise (network error, timeout),
\* or answer with a message content (None, or a text of `chars` characters
\* once stripped)
RemoteResponses == {
    [raised |-> TRUE, content |-> None],
    [raised |-> FALSE, content |-> None],
    [raised |-> FALSE, content |-> Some([text |-> "remote", chars |-> 49])],
    [raised |-> FALSE, content |-> Some([text |-> "remote", chars |-> 50])]
}

\* ------------------------------------------------------------------------
\* State
\* ------------------------------------------------------------------------
VARIABLES
    users,        \* table `users`: sequence of rows, id = position
    progress,     \* table `progress`: sequence of rows, id = position
    llm_service,  \* the LLMService singleton: api_key, client, _initialized
    hash_seed,    \* the process's string-hash randomisation
    reply,        \* the text process_message returned last
    workers,      \* per worker process: its LLMService and the request it handles
    before        \* the tables as two overlapping requests found them

vars == <<users, progress, llm_service, hash_seed, reply, workers, before>>

OnboardingSteps == <<"name", "age", "country", "subjects", "learning_mode", "language", "completed">>

LanguageEn == <<"e", "n">>
AcceptedLanguages == {<<"e", "n", "g", "l", "i", "s", "h">>, <<"e", "n">>, <<"e", "n", "g">>}
HashSeeds == {0, 1}

Reply(kind, args) == [kind |-> kind, args |-> args]
NoReply == Reply("none", <<>>)

\* ------------------------------------------------------------------------
\* Store (app/db.py)
\* ------------------------------------------------------------------------
\* a row of `users` as the column defaults leave it on INSERT
User(id, phone_number) ==
    [id |-> id,
     phone_number |-> phone_number,
     name |-> None,
     age |-> None,
     country |-> None,
     preferred_subjects |-> None,
     learning_mode |-> None,
     language |-> LanguageEn,
     onboarding_step |-> "name",
     is_onboarded |-> FALSE]

\* a row of `progress` as the column defaults leave it on INSERT
Progress(id, user_id, topic, lesson_content, total_steps) ==
    [id |-> id,
     user_id |-> user_id,
     topic |-> topic,
     lesson_content |-> lesson_content,
     lesson_step |-> 1,
     total_steps |-> total_steps,
     completed |-> FALSE,
     score |-> None,
     created_at |-> id]

\* get_user_by_phone: the row as <<row>>, or None
get_user_by_phone(tbl, phone_number) ==
    IF \E i \in 1..Len(tbl) : tbl[i].phone_number = phone_number
    THEN Some(tbl[CHOOSE i \in 1..Len(tbl) :
                     tbl[i].phone_number = phone_number
                     /\ \A j \in 1..(i - 1) : tbl[j].phone_number # phone_number])
    ELSE None

\* create_user: the table with the new row appended
create_user(tbl, phone_number) == Append(tbl, User(Len(tbl) + 1, phone_number))

\* mutant of update_user: the row is rebuilt from the column defaults and
\* only the named columns are set
update_user_replacing(tbl, user, changes) ==
    [tbl EXCEPT ![user.id] =
        [f \in DOMAIN user |->
            IF f \in DOMAIN changes THEN changes[f] ELSE User(user.id, user.phone_number)[f]]]

\* update_user: the UPDATE the session flushes sets the named columns of
\* the row with the user's id and leaves its other columns as they are
update_user(tbl, user, changes) ==
    [tbl EXCEPT ![user.id] =
        [f \in DOMAIN @ |-> IF f \in DOMAIN changes THEN changes[f] ELSE @[f]]]

\* mutant of create_progress: the new row takes the place of the rows the
\* user had
create_progress_replacing(tbl, user_id, topic, lesson_content) ==
    Append(SelectSeq(tbl, LAMBDA row : row.user_id # user_id),
           Progress(Len(tbl) + 1, user_id, topic, lesson_content, 1))

\* create_progress: the table with the new row appended
create_progress(tbl, user_id, topic, lesson_content) ==
    Append(tbl, Progress(Len(tbl) + 1, user_id, topic, lesson_content, 1))

\* mutant of get_current_lesson: no filter on user_id
get_current_lesson_anyone(tbl, user_id) ==
    LET open == {k \in 1..Len(tbl) : ~tbl[k].completed}
    IN IF open = {} THEN None
       ELSE Some(tbl[CHOOSE k \in open : \A j \in open : tbl[j].created_at <= tbl[k].created_at])

\* mutant of get_current_lesson: the oldest incomplete row of the user
get_current_lesson_oldest(tbl, user_id) ==
    LET mine == {i \in 1..Len(tbl) : tbl[i].user_id = user_id /\ ~tbl[i].completed}
    IN IF mine = {} THEN None
       ELSE Some(tbl[CHOOSE i \in mine : \A j \in mine : tbl[i].created_at <= tbl[j].created_at])

\* get_current_lesson: the newest incomplete row of the user as <<row>>, or None
get_current_lesson(tbl, user_id) ==
    LET mine == {i \in 1..Len(tbl) : tbl[i].user_id = user_id /\ ~tbl[i].completed}
    IN IF mine = {} THEN None
       ELSE Some(tbl[CHOOSE i \in mine : \A j \in mine : tbl[j].created_at <= tbl[i].created_at])

\* mutant of update_progress: the changed row is added as a new row and the
\* old one is kept
update_progress_inserting(tbl, row, changes) ==
    Append(tbl, [f \in DOMAIN row |->
                    IF f = "id" THEN Len(tbl) + 1
                    ELSE IF f \in DOMAIN changes THEN changes[f] ELSE row[f]])

\* mutant of update_progress: a row whose lesson_step reaches total_steps is
\* marked completed
update_progress_completing(tbl, row, changes) ==
    [tbl EXCEPT ![row.id] =
        [f \in DOMAIN @ |->
            IF f = "completed" THEN changes.lesson_step >= @.total_steps
            ELSE IF f \in DOMAIN changes THEN changes[f] ELSE @[f]]]

\* update_progress: the UPDATE the session flushes sets the named columns
\* of the row with that id and leaves its other columns as they are
update_progress(tbl, row, changes) ==
    [tbl EXCEPT ![row.id] =
        [f \in DOMAIN @ |-> IF f \in DOMAIN changes THEN changes[f] ELSE @[f]]]

\* mutant of IntegrityError: the column phone_number is not declared unique
IntegrityError_undeclared(tbl, phone_number) == FALSE

\* the unique index on users.phone_number refuses a second row of a phone
\* number: the INSERT raises IntegrityError
IntegrityError(tbl, phone_number) ==
    \E i \in 1..Len(tbl) : tbl[i].phone_number = phone_number

\* the database calls of one request, of which one may raise
Faults == {"none", "get_user_by_phone", "get_current_lesson", "commit", "refresh"}

\* db.commit() then db.refresh(row), the tail of every create_ and update_
\* function: a commit that raises stores nothing, a refresh that raises
\* leaves the committed rows in the table; either way the exception goes up
Saved(st, table, rows) ==
    IF st.fault = "commit" THEN [st EXCEPT !.raised = TRUE]
    ELSE IF st.fault = "refresh" THEN [st EXCEPT ![table] = rows, !.raised = TRUE]
    ELSE [st EXCEPT ![table] = rows]


\* ------------------------------------------------------------------------
\* Lesson generator (app/llm.py)
\* ------------------------------------------------------------------------
MinLessonChars == 50

\* keys of fallback_lessons, in dictionary order
fallback_keys == <<
    <<"f", "r", "a", "c", "t", "i", "o", "n", "s">>,
    <<"a", "d", "d", "i", "t", "i", "o", "n">>,
    <<"p", "h", "o", "t", "o", "s", "y", "n", "t", "h", "e", "s", "i", "s">>,
    <<"m", "u", "l", "t", "i", "p", "l", "i", "c", "a", "t", "i", "o", "n">>,
    <<"s", "o", "l", "a", "r", " ", "s", "y", "s", "t", "e", "m">>
>>

\* _get_fallback_lesson: the canned lesson of the first key found in the
\* lower-cased topic, else the generic template around the topic
get_fallback_lesson(topic, age_group) ==
    LET topic_lower == lower(topic)
        hits == {i \in 1..Len(fallback_keys) : contains(topic_lower, fallback_keys[i])}
    IN IF hits # {}
       THEN [source |-> "canned", text |-> fallback_keys[CHOOSE i \in hits : \A j \in hits : i <= j]]
       ELSE [source |-> "generic", text |-> topic]

\* ------------------------------------------------------------------------
\* Replies of app/utils.py and app/handlers.py
\* ------------------------------------------------------------------------
\* the age band that selects the tips of get_help_message
HelpBand(age_group) ==
    IF age_group <= 8 THEN "little"
    ELSE IF age_group <= 12 THEN "study"
    ELSE IF age_group <= 16 THEN "smart"
    ELSE "professional"

get_help_message(age_group) == Reply("help", <<HelpBand(age_group)>>)

TechnicalDifficulties == Reply("technical_difficulties", <<>>)

\* str.replace(sub, ''): drop every occurrence of sub, left to right
RECURSIVE remove(_, _)
remove(s, sub) ==
    IF ~contains(s, sub) THEN s
    ELSE LET k == CHOOSE i \in 1..(Len(s) - Len(sub) + 1) :
                      SubSeq(s, i, i + Len(sub) - 1) = sub
                      /\ \A j \in 1..(i - 1) : SubSeq(s, j, j + Len(sub) - 1) # sub
         IN SubSeq(s, 1, k - 1) \o remove(SubSeq(s, k + Len(sub), Len(s)), sub)

question_keywords == <<
    <<"w", "h", "a", "t", " ", "i", "s">>,
    <<"h", "o", "w", " ", "d", "o">>,
    <<"h", "o", "w", " ", "d", "o", "e", "s">>,
    <<"e", "x", "p", "l", "a", "i", "n">>,
    <<"t", "e", "a", "c", "h", " ", "m", "e">>,
    <<"l", "e", "a", "r", "n", " ", "a", "b", "o", "u", "t">>
>>

SuffixAdvanced == <<" ", "-", " ", "A", "d", "v", "a", "n", "c", "e", "d", " ", "C", "o", "n", "c", "e", "p", "t", "s">>


\* ------------------------------------------------------------------------
\* What the validators and parsers make of each input, computed once
\* ------------------------------------------------------------------------
\* the for loop over question_keywords from position k on: the topic of the
\* first keyword that leaves more than 3 characters, as <<topic>>, or None
RECURSIVE SuggestedTopic(_, _)
SuggestedTopic(message_lower, k) ==
    IF k > Len(question_keywords) THEN None
    ELSE LET keyword == question_keywords[k]
             topic == strip(stripChar(remove(message_lower, keyword), "?"))
         IN IF contains(message_lower, keyword) /\ Len(topic) > 3 THEN Some(topic)
            ELSE SuggestedTopic(message_lower, k + 1)

\* per inbound message, the value of each function the handlers apply to it
StripOf == [message \in Inputs |-> strip(message)]
AgeOf == [message \in Inputs |-> validate_age(message)]
CountryOf == [message \in Inputs |-> validate_country(message)]
SubjectsIn == [message \in Inputs |-> validate_subjects(message)]
LearningModeOf == [message \in Inputs |-> validate_learning_mode(message)]
LanguageOf == [message \in Inputs |-> lower(StripOf[message])]
CommandOf ==
    [message \in Inputs |->
        IF startswith(LanguageOf[message], CmdHelp) THEN "help"
        ELSE IF startswith(LanguageOf[message], CmdLesson) THEN "lesson"
        ELSE IF startswith(LanguageOf[message], CmdNext) THEN "next"
        ELSE "general"]
LessonTopicOf == [message \in Inputs |-> parse_lesson_command(StripOf[message])]
SuggestionOf == [message \in Inputs |-> SuggestedTopic(LanguageOf[message], 1)]

\* the topics a Progress row can hold, and the follow-up topics of /next
Topics ==
    {LessonTopicOf[m][1] : m \in {x \in Inputs : LessonTopicOf[x] # None}}

\* per topic: its title, its follow-up topic and its fallback lesson
AllTopics == Topics \cup {t \o SuffixAdvanced : t \in Topics}
TitleOfTopic == [topic \in AllTopics |-> title(topic)]
FollowUpOf == [topic \in Topics |-> topic \o SuffixAdvanced]
FallbackOf == [topic \in AllTopics |-> get_fallback_lesson(topic, 0)]

\* mutant of initialize: a failed attempt is remembered, and a service that
\* already built its client makes no second connection test
initialize_once(svc, test_ok) ==
    IF svc.initialized \/ svc.client THEN [svc |-> svc, raised |-> FALSE]
    ELSE IF ~svc.api_key THEN [svc |-> svc, raised |-> TRUE]
    ELSE IF test_ok THEN [svc |-> [svc EXCEPT !.client = TRUE, !.initialized = TRUE], raised |-> FALSE]
    ELSE [svc |-> [svc EXCEPT !.client = TRUE], raised |-> TRUE]

\* LLMService.initialize: test_ok is whether the connection test answers
initialize(svc, test_ok) ==
    IF svc.initialized THEN [svc |-> svc, raised |-> FALSE]
    ELSE IF ~svc.api_key THEN [svc |-> svc, raised |-> TRUE]
    ELSE IF test_ok THEN [svc |-> [svc EXCEPT !.client = TRUE, !.initialized = TRUE], raised |-> FALSE]
    ELSE [svc |-> [svc EXCEPT !.client = TRUE], raised |-> TRUE]

\* mutant of generate_lesson: the length of the response is not checked
generate_lesson_unmeasured(svc, topic, age_group, user_name, test_ok, response) ==
    LET init == IF ~svc.initialized THEN initialize(svc, test_ok)
                ELSE [svc |-> svc, raised |-> FALSE]
    IN [svc |-> init.svc,
        raised |-> init.raised,
        content |->
            IF init.raised THEN None
            ELSE IF /\ init.svc.initialized /\ init.svc.client
                    /\ ~response.raised /\ response.content # None
            THEN [source |-> "remote", text |-> topic]
            ELSE FallbackOf[topic]]

\* LLMService.generate_lesson: the service afterwards, whether the call
\* raised, and the lesson text when it did not
generate_lesson(svc, topic, age_group, user_name, test_ok, response) ==
    LET init == IF ~svc.initialized THEN initialize(svc, test_ok)
                ELSE [svc |-> svc, raised |-> FALSE]
    IN [svc |-> init.svc,
        raised |-> init.raised,
        content |->
            IF init.raised THEN None
            ELSE IF /\ init.svc.initialized /\ init.svc.client
                    /\ ~response.raised /\ response.content # None
                    /\ response.content[1].chars >= MinLessonChars
            THEN [source |-> "remote", text |-> topic]
            ELSE FallbackOf[topic]]

\* ------------------------------------------------------------------------
\* Conversation state machine (app/handlers.py)
\*
\* A handler maps the store and service it is given (a record st with the
\* fields users, progress, llm_service, reply, and the session's fault) to
\* what it leaves behind; raised tells that it ended by an exception.
\* ------------------------------------------------------------------------
MaxNameLength == 50

\* mutant of _process_name_step: the name is stored and the step is not advanced
_process_name_step_staying(st, user, message) ==
    LET name == StripOf[message]
    IN IF Len(name) < 1 \/ Len(name) > MaxNameLength
       THEN [st EXCEPT !.reply = Reply("name_invalid", <<>>)]
       ELSE LET saved == Saved(st, "users", update_user(st.users, user, [name |-> Some(name)]))
            IN IF saved.raised THEN saved
               ELSE [saved EXCEPT !.reply = Reply("name_ok", <<name, get_greeting_emoji(25)>>)]

_process_name_step(st, user, message) ==
    LET name == StripOf[message]
    IN IF Len(name) < 1 \/ Len(name) > MaxNameLength
       THEN [st EXCEPT !.reply = Reply("name_invalid", <<>>)]
       ELSE LET saved == Saved(st, "users", update_user(st.users, user,
                              [name |-> Some(name), onboarding_step |-> "age"]))
            IN IF saved.raised THEN saved
               ELSE [saved EXCEPT !.reply = Reply("name_ok", <<name, get_greeting_emoji(25)>>)]

\* mutant of _process_age_step: the step after age is 'subjects'
_process_age_step_skipping(st, user, message) ==
    LET age == AgeOf[message]
    IN IF age = None
       THEN [st EXCEPT !.reply = Reply("age_invalid", <<>>)]
       ELSE LET saved == Saved(st, "users", update_user(st.users, user,
                              [age |-> age, onboarding_step |-> "subjects"]))
            IN IF saved.raised THEN saved
               ELSE [saved EXCEPT !.reply = Reply("age_ok", <<get_greeting_emoji(age[1])>>)]

_process_age_step(st, user, message) ==
    LET age == AgeOf[message]
    IN IF age = None
       THEN [st EXCEPT !.reply = Reply("age_invalid", <<>>)]
       ELSE LET saved == Saved(st, "users", update_user(st.users, user,
                              [age |-> age, onboarding_step |-> "country"]))
            IN IF saved.raised THEN saved
               ELSE [saved EXCEPT !.reply = Reply("age_ok", <<get_greeting_emoji(age[1])>>)]

_process_country_step(st, user, message) ==
    LET country == CountryOf[message]
    IN IF country = None
       THEN [st EXCEPT !.reply = Reply("country_invalid", <<>>)]
       ELSE LET saved == Saved(st, "users", update_user(st.users, user,
                              [country |-> country, onboarding_step |-> "subjects"]))
            IN IF saved.raised THEN saved
               ELSE [saved EXCEPT !.reply = Reply("country_ok", <<country[1]>>)]

\* mutant of _process_subjects_step: an empty subject list is stored too
_process_subjects_step_unchecked(st, user, message) ==
    LET subjects == SubjectsIn[message]
    IN LET saved == Saved(st, "users", update_user(st.users, user,
                         [preferred_subjects |-> Some(store_subjects_as_json(subjects)),
                          onboarding_step |-> "learning_mode"]))
       IN IF saved.raised THEN saved
          ELSE [saved EXCEPT !.reply = Reply("subjects_ok", <<join(<<",", " ">>, subjects)>>)]

_process_subjects_step(st, user, message) ==
    LET subjects == SubjectsIn[message]
    IN IF subjects = <<>>
       THEN [st EXCEPT !.reply = Reply("subjects_invalid", <<>>)]
       ELSE LET saved == Saved(st, "users", update_user(st.users, user,
                              [preferred_subjects |-> Some(store_subjects_as_json(subjects)),
                               onboarding_step |-> "learning_mode"]))
            IN IF saved.raised THEN saved
               ELSE [saved EXCEPT !.reply = Reply("subjects_ok", <<join(<<",", " ">>, subjects)>>)]

_process_learning_mode_step(st, user, message) ==
    LET mode == LearningModeOf[message]
    IN IF mode = None
       THEN [st EXCEPT !.reply = Reply("learning_mode_invalid", <<>>)]
       ELSE LET saved == Saved(st, "users", update_user(st.users, user,
                              [learning_mode |-> mode, onboarding_step |-> "language"]))
            IN IF saved.raised THEN saved
               ELSE [saved EXCEPT !.reply = Reply("learning_mode_ok",
                                <<IF mode[1] = ModeText THEN "text-based" ELSE "audio-based">>)]

\* mutant of _process_language_step: is_onboarded is not set
_process_language_step_unflagged(st, user, message) ==
    LET language == LanguageOf[message]
    IN IF language \notin AcceptedLanguages
       THEN [st EXCEPT !.reply = Reply("language_invalid", <<>>)]
       ELSE LET saved == Saved(st, "users", update_user(st.users, user,
                              [language |-> LanguageEn, onboarding_step |-> "completed"]))
            IN IF saved.raised THEN saved
               ELSE [saved EXCEPT !.reply = Reply("onboarding_complete", <<>>)]

\* the welcome message reads user.age after the commit: with no age stored
\* get_greeting_emoji raises
_process_language_step(st, user, message) ==
    LET language == LanguageOf[message]
    IN IF language \notin AcceptedLanguages
       THEN [st EXCEPT !.reply = Reply("language_invalid", <<>>)]
       ELSE LET saved == Saved(st, "users", update_user(st.users, user,
                              [language |-> LanguageEn, is_onboarded |-> TRUE,
                               onboarding_step |-> "completed"]))
                row == saved.users[user.id]
            IN IF saved.raised THEN saved
               ELSE IF row.age = None THEN [saved EXCEPT !.raised = TRUE]
               ELSE [saved EXCEPT !.reply =
                        Reply("onboarding_complete",
                              <<row.name, get_greeting_emoji(row.age[1]),
                                row.age, row.country, row.learning_mode>>)]

\* mutant of _handle_onboarding: a new user's first message is taken as the
\* answer to the name prompt
_handle_onboarding_consuming(st, user, message, is_new_user) ==
    LET current_step == user.onboarding_step
    IN IF current_step = "name" THEN _process_name_step(st, user, message)
       ELSE IF current_step = "age" THEN _process_age_step(st, user, message)
       ELSE IF current_step = "country" THEN _process_country_step(st, user, message)
       ELSE IF current_step = "subjects" THEN _process_subjects_step(st, user, message)
       ELSE IF current_step = "learning_mode" THEN _process_learning_mode_step(st, user, message)
       ELSE IF current_step = "language" THEN _process_language_step(st, user, message)
       ELSE [st EXCEPT !.reply = Reply("onboarding_went_wrong", <<>>)]

_handle_onboarding(st, user, message, is_new_user) ==
    LET current_step == user.onboarding_step
    IN IF is_new_user /\ current_step = "name" /\ user.name = None
       THEN [st EXCEPT !.reply = Reply("welcome", <<get_greeting_emoji(25)>>)]
       ELSE IF current_step = "name" THEN _process_name_step(st, user, message)
       ELSE IF current_step = "age" THEN _process_age_step(st, user, message)
       ELSE IF current_step = "country" THEN _process_country_step(st, user, message)
       ELSE IF current_step = "subjects" THEN _process_subjects_step(st, user, message)
       ELSE IF current_step = "learning_mode" THEN _process_learning_mode_step(st, user, message)
       ELSE IF current_step = "language" THEN _process_language_step(st, user, message)
       ELSE [st EXCEPT !.reply = Reply("onboarding_went_wrong", <<>>)]

\* user.age is read for the age band: with no age stored the comparison raises
_handle_help_command(st, user) ==
    IF user.age = None THEN [st EXCEPT !.raised = TRUE]
    ELSE [st EXCEPT !.reply = get_help_message(user.age[1])]

\* the end of a try block around a store call: its except clause answers
\* with `failed`, its last line with `done`
Tried(saved, failed, done) ==
    IF saved.raised THEN [saved EXCEPT !.raised = FALSE, !.reply = failed]
    ELSE [saved EXCEPT !.reply = done]

\* mutant of _handle_lesson_command: the topic is also saved as the user's
\* preferred subject
_handle_lesson_command_tracking(st, user, message, test_ok, response) ==
    LET topic == LessonTopicOf[message]
    IN IF topic = None \/ topic = Some(<<>>)
       THEN [st EXCEPT !.reply = Reply("lesson_no_topic", <<>>)]
       ELSE LET gen == generate_lesson(st.llm_service, topic[1], user.age, user.name,
                                       test_ok, response)
            IN IF gen.raised
               THEN [st EXCEPT !.llm_service = gen.svc,
                               !.reply = Reply("lesson_failed", <<topic[1]>>)]
               ELSE Tried(Saved(Saved([st EXCEPT !.llm_service = gen.svc], "users",
                                      update_user(st.users, user,
                                          [preferred_subjects |->
                                              Some(store_subjects_as_json(<<topic[1]>>))])),
                                "progress",
                                create_progress(st.progress, user.id, topic[1], gen.content)),
                          Reply("lesson_failed", <<topic[1]>>),
                          Reply("lesson", <<TitleOfTopic[topic[1]], gen.content>>))

\* test_ok and response are what the remote service does during this call.
\* The try block holds generate_lesson and create_progress: whatever either
\* raises is answered with the 'had trouble creating a lesson' reply.
_handle_lesson_command(st, user, message, test_ok, response) ==
    LET topic == LessonTopicOf[message]
    IN IF topic = None \/ topic = Some(<<>>)
       THEN [st EXCEPT !.reply = Reply("lesson_no_topic", <<>>)]
       ELSE LET gen == generate_lesson(st.llm_service, topic[1], user.age, user.name,
                                       test_ok, response)
            IN IF gen.raised
               THEN [st EXCEPT !.llm_service = gen.svc,
                               !.reply = Reply("lesson_failed", <<topic[1]>>)]
               ELSE Tried(Saved([st EXCEPT !.llm_service = gen.svc], "progress",
                                create_progress(st.progress, user.id, topic[1], gen.content)),
                          Reply("lesson_failed", <<topic[1]>>),
                          Reply("lesson", <<TitleOfTopic[topic[1]], gen.content>>))

\* mutant of _handle_next_command: no check that a lesson was found, so its
\* first use fails inside the try block
_handle_next_command_unguarded(st, user, test_ok, response) ==
    LET current_lesson == get_current_lesson(st.progress, user.id)
    IN IF st.fault = "get_current_lesson" THEN [st EXCEPT !.raised = TRUE]
       ELSE IF current_lesson = None
       THEN [st EXCEPT !.reply = Reply("next_failed", <<>>)]
       ELSE LET row == current_lesson[1]
                gen == generate_lesson(st.llm_service, FollowUpOf[row.topic],
                                       user.age, user.name, test_ok, response)
            IN IF gen.raised
               THEN [st EXCEPT !.llm_service = gen.svc, !.reply = Reply("next_failed", <<>>)]
               ELSE Tried(Saved([st EXCEPT !.llm_service = gen.svc], "progress",
                                update_progress(st.progress, row,
                                    [lesson_step |-> row.lesson_step + 1,
                                     lesson_content |-> gen.content])),
                          Reply("next_failed", <<>>),
                          Reply("next", <<TitleOfTopic[row.topic], row.lesson_step + 1,
                                          gen.content>>))

\* mutant of _handle_next_command: the step is written before the follow-up
\* is generated
_handle_next_command_eager(st, user, test_ok, response) ==
    LET current_lesson == get_current_lesson(st.progress, user.id)
    IN IF st.fault = "get_current_lesson" THEN [st EXCEPT !.raised = TRUE]
       ELSE IF current_lesson = None
       THEN [st EXCEPT !.reply = Reply("next_no_lesson", <<>>)]
       ELSE LET row == current_lesson[1]
                gen == generate_lesson(st.llm_service, FollowUpOf[row.topic], user.age,
                                       user.name, test_ok, response)
            IN Tried(Saved([st EXCEPT !.llm_service = gen.svc, !.raised = gen.raised],
                           "progress",
                           update_progress(st.progress, row,
                               [lesson_step |-> row.lesson_step + 1,
                                lesson_content |-> IF gen.raised THEN row.lesson_content
                                                   ELSE gen.content])),
                     Reply("next_failed", <<>>),
                     Reply("next", <<TitleOfTopic[row.topic], row.lesson_step + 1,
                                     gen.content>>))

\* the try block of _handle_next_command on the lesson that was read:
\* generate_lesson and update_progress; whatever either raises is answered
\* with the 'had trouble preparing the next part' reply
_handle_next_command_try(st, user, row, test_ok, response) ==
    LET follow_up_topic == FollowUpOf[row.topic]
        gen == generate_lesson(st.llm_service, follow_up_topic, user.age, user.name,
                               test_ok, response)
    IN IF gen.raised
       THEN [st EXCEPT !.llm_service = gen.svc, !.reply = Reply("next_failed", <<>>)]
       ELSE Tried(Saved([st EXCEPT !.llm_service = gen.svc], "progress",
                        update_progress(st.progress, row,
                            [lesson_step |-> row.lesson_step + 1,
                             lesson_content |-> gen.content])),
                  Reply("next_failed", <<>>),
                  Reply("next", <<TitleOfTopic[row.topic], row.lesson_step + 1,
                                  gen.content>>))

\* the query for the current lesson is made before the try block
_handle_next_command(st, user, test_ok, response) ==
    IF st.fault = "get_current_lesson" THEN [st EXCEPT !.raised = TRUE]
    ELSE IF get_current_lesson(st.progress, user.id) = None
    THEN [st EXCEPT !.reply = Reply("next_no_lesson", <<>>)]
    ELSE _handle_next_command_try(st, user, get_current_lesson(st.progress, user.id)[1],
                                  test_ok, response)

NumResponses == 3

\* hash(phone_number) % len(responses): Python salts str hashes per process,
\* so the index is fixed by the process's seed and the phone number
ResponseIndex(seed, phone_number) ==
    (seed + Len(phone_number)) % NumResponses

_handle_general_message(st, user, message, seed) ==
    LET suggestion == SuggestionOf[message]
    IN IF suggestion # None
       THEN [st EXCEPT !.reply = Reply("suggest_lesson", suggestion)]
       ELSE IF user.age = None THEN [st EXCEPT !.raised = TRUE]
       ELSE IF user.age[1] <= 8
       THEN [st EXCEPT !.reply = Reply("nudge_little", <<user.name>>)]
       ELSE IF user.age[1] <= 12
       THEN [st EXCEPT !.reply = Reply("nudge_study", <<user.name>>)]
       ELSE [st EXCEPT !.reply =
                Reply("nudge_general",
                      <<ResponseIndex(seed, user.phone_number),
                        IF ResponseIndex(seed, user.phone_number) = 0
                        THEN user.name ELSE None>>)]

_handle_regular_message(st, user, message, seed, test_ok, response) ==
    IF CommandOf[message] = "help" THEN _handle_help_command(st, user)
    ELSE IF CommandOf[message] = "lesson"
    THEN _handle_lesson_command(st, user, message, test_ok, response)
    ELSE IF CommandOf[message] = "next"
    THEN _handle_next_command(st, user, test_ok, response)
    ELSE _handle_general_message(st, user, message, seed)

\* the except clause of process_message: whatever the handling raised
\* becomes the technical-difficulties reply
Caught(out) ==
    IF out.raised THEN [out EXCEPT !.raised = FALSE, !.reply = TechnicalDifficulties]
    ELSE out

\* mutant of process_message: a command is handled as a command whether or
\* not the user is onboarded
process_message_commands_first(st, phone_number, message, seed, test_ok, response) ==
    LET found == get_user_by_phone(st.users, phone_number)
        is_new_user == found = None
        created == IF is_new_user
                   THEN Saved(st, "users", create_user(st.users, phone_number))
                   ELSE st
        user == get_user_by_phone(created.users, phone_number)[1]
    IN IF st.fault = "get_user_by_phone" THEN Caught([st EXCEPT !.raised = TRUE])
       ELSE IF created.raised THEN Caught(created)
       ELSE IF ~user.is_onboarded /\ (is_new_user \/ CommandOf[message] = "general")
       THEN Caught(_handle_onboarding(created, user, message, is_new_user))
       ELSE Caught(_handle_regular_message(created, user, message, seed, test_ok, response))

process_message(st, phone_number, message, seed, test_ok, response) ==
    LET found == get_user_by_phone(st.users, phone_number)
        is_new_user == found = None
        created == IF is_new_user
                   THEN Saved(st, "users", create_user(st.users, phone_number))
                   ELSE st
        user == get_user_by_phone(created.users, phone_number)[1]
    IN IF st.fault = "get_user_by_phone" THEN Caught([st EXCEPT !.raised = TRUE])
       ELSE IF created.raised THEN Caught(created)
       ELSE IF ~user.is_onboarded
       THEN Caught(_handle_onboarding(created, user, message, is_new_user))
       ELSE Caught(_handle_regular_message(created, user, message, seed, test_ok, response))

\* ------------------------------------------------------------------------
\* The running application (app/main.py)
\* ------------------------------------------------------------------------
\* LLMService() as constructed, with or without OPENROUTER_API_KEY set
LLMService(api_key) == [api_key |-> api_key, client |-> FALSE, initialized |-> FALSE]

\* lifespan: create the tables, then try initialize_llm() and carry on when
\* it raises
lifespan(api_key, test_ok) == initialize(LLMService(api_key), test_ok).svc

\* the worker processes of a deployment with several of them
Workers == {1, 2}

\* a worker without a request
Idle(svc) ==
    [llm_service |-> svc, pc |-> "idle", phone_number |-> <<>>, message |-> <<>>,
     user |-> None, current_lesson |-> None, reply |-> NoReply]

\* one process serves every request: no worker holds a request
OneProcess ==
    /\ workers = [w \in Workers |-> Idle(LLMService(FALSE))]
    /\ before = [users |-> <<>>, progress |-> <<>>]

Init ==
    /\ users = <<>>
    /\ progress = <<>>
    /\ \E api_key \in BOOLEAN, test_ok \in BOOLEAN : llm_service = lifespan(api_key, test_ok)
    /\ hash_seed \in HashSeeds
    /\ reply = NoReply
    /\ OneProcess

\* the store and service a request finds
Current ==
    [users |-> users, progress |-> progress, llm_service |-> llm_service, reply |-> reply,
     raised |-> FALSE, fault |-> "none"]

\* the rows stay within the bounds of the model
WithinBounds(st) ==
    /\ Len(st.progress) <= MaxProgress
    /\ \A i \in 1..Len(st.progress) : st.progress[i].lesson_step <= MaxLessonStep

\* the replies of the two paths that call generate_lesson
GeneratedReplies == {"lesson", "lesson_failed", "next", "next_failed"}

\* whatsapp_webhook -> process_whatsapp_message: one inbound message handled
\* from its first read to its reply.  What the remote service does (test_ok,
\* response) is drawn only for a message whose handling calls generate_lesson.
ProcessWhatsappMessage(phone_number, message) ==
    \E quiet \in {process_message(Current, phone_number, message, hash_seed,
                                  FALSE, [raised |-> TRUE, content |-> None])} :
    \E st \in (IF quiet.reply.kind \in GeneratedReplies
               THEN {process_message(Current, phone_number, message, hash_seed, test_ok, response) :
                        test_ok \in BOOLEAN, response \in RemoteResponses}
               ELSE {quiet}) :
        /\ WithinBounds(st)
        /\ users' = st.users
        /\ progress' = st.progress
        /\ llm_service' = st.llm_service
        /\ reply' = st.reply
        /\ UNCHANGED <<hash_seed, workers, before>>

Next == \E phone_number \in PhoneNumbers, message \in Messages :
            ProcessWhatsappMessage(phone_number, message)

Spec == Init /\ [][Next]_vars

\* ------------------------------------------------------------------------
\* The application restarted on its database, with failing database calls
\* ------------------------------------------------------------------------
WhatsappPrefix == <<"w", "h", "a", "t", "s", "a", "p", "p", ":">>

\* the From fields Twilio posts: a sender, and a From without a number
Froms ==
    {WhatsappPrefix \o phone_number : phone_number \in PhoneNumbers}
        \cup {WhatsappPrefix, WhatsappPrefix \o <<" ">>}

\* From.replace('whatsapp:', '').strip()
PhoneOf == [From \in Froms |-> strip(remove(From, WhatsappPrefix))]

WebhookDifficulties == Reply("webhook_difficulties", <<>>)

\* mutant of whatsapp_webhook: the HTTPException of an empty phone number
\* is let through, and FastAPI answers 400 without a TwiML document
whatsapp_webhook_rejecting(st, From, Body, seed, test_ok, response) ==
    IF PhoneOf[From] = <<>>
    THEN [store |-> st, status |-> 400, twiml |-> <<>>]
    ELSE [store |-> process_message(st, PhoneOf[From], Body, seed, test_ok, response),
          status |-> 200,
          twiml |-> <<process_message(st, PhoneOf[From], Body, seed, test_ok, response).reply>>]

\* the Response of the webhook: the TwiML document with one message
TwimlResponse(st) == [store |-> st, status |-> 200, twiml |-> <<st.reply>>]

\* whatsapp_webhook: the store and service it leaves, and the messages of
\* the TwiML response it returns.  An empty phone number raises
\* HTTPException inside the try block, whose except clause answers with
\* the webhook's own apology.
whatsapp_webhook(st, From, Body, seed, test_ok, response) ==
    TwimlResponse(IF PhoneOf[From] = <<>>
                  THEN [st EXCEPT !.reply = WebhookDifficulties]
                  ELSE process_message(st, PhoneOf[From], Body, seed, test_ok, response))

\* the answers of one onboarding, after a first message that is not parsed
OnboardingWalk == <<
    <<>>,
    <<"i", "n", "d", "i", "a">>,
    <<"2", "5">>,
    <<"i", "n", "d", "i", "a">>,
    <<"m", "a", "t", "h", ",", "p", "e">>,
    <<"T", "e", "x", "t">>,
    <<"E", "N">>
>>

\* the store a new database holds
EmptyStore ==
    [users |-> <<>>, progress |-> <<>>, llm_service |-> LLMService(FALSE), reply |-> NoReply,
     raised |-> FALSE, fault |-> "none"]

\* what process_message leaves after the messages of a sequence, in order
RECURSIVE Conversation(_, _, _)
Conversation(st, phone_number, messages) ==
    IF Len(messages) = 0 THEN st
    ELSE Conversation(
            process_message(st, phone_number, Head(messages), 0, FALSE,
                            [raised |-> TRUE, content |-> None]),
            phone_number, Tail(messages))

\* the users table of a database on which one user completed onboarding
OnboardedUsers ==
    Conversation(EmptyStore, CHOOSE phone_number \in PhoneNumbers : TRUE, OnboardingWalk).users

\* the application starts on a new database or on one that already holds an
\* onboarded user
InitDeployed ==
    /\ users \in {<<>>, OnboardedUsers}
    /\ progress = <<>>
    /\ \E api_key \in BOOLEAN, test_ok \in BOOLEAN : llm_service = lifespan(api_key, test_ok)
    /\ hash_seed \in HashSeeds
    /\ reply = NoReply
    /\ OneProcess

\* the session of a request in which the database call `fault` raises
Session(fault) == [Current EXCEPT !.fault = fault]

WithinLessons(st) ==
    /\ Len(st.progress) <= MaxLessons
    /\ \A i \in 1..Len(st.progress) : st.progress[i].lesson_step <= MaxLessonStep

\* POST /whatsapp: one inbound message handled from its first read to its
\* response, with the database call `fault` raising
WhatsappWebhook(From, Body) ==
    \E fault \in Faults :
    \E quiet \in {whatsapp_webhook(Session(fault), From, Body, hash_seed,
                                   FALSE, [raised |-> TRUE, content |-> None])} :
    \E out \in (IF quiet.twiml # <<>> /\ quiet.twiml[1].kind \in GeneratedReplies
                THEN {whatsapp_webhook(Session(fault), From, Body, hash_seed, test_ok, response) :
                         test_ok \in BOOLEAN, response \in RemoteResponses}
                ELSE {quiet}) :
        /\ WithinLessons(out.store)
        /\ users' = out.store.users
        /\ progress' = out.store.progress
        /\ llm_service' = out.store.llm_service
        /\ reply' = (IF out.twiml = <<>> THEN NoReply ELSE out.twiml[1])
        /\ UNCHANGED <<hash_seed, workers, before>>

\* the process is stopped and started again: a new LLMService and a new
\* hash randomisation, on the database as it is
Restart ==
    /\ \E api_key \in BOOLEAN, test_ok \in BOOLEAN : llm_service' = lifespan(api_key, test_ok)
    /\ hash_seed' \in HashSeeds
    /\ UNCHANGED <<users, progress, reply, workers, before>>

\* the inbound texts of the deployed runs
Bodies == {
    <<"/", "l", "e", "s", "s", "o", "n", " ", "A", "d", "d", "i", "t", "i", "o", "n", " ", "o", "f", " ", "F", "r", "a", "c", "t", "i", "o", "n", "s">>,
    <<"/", "n", "e", "x", "t">>,
    <<"i", "n", "d", "i", "a">>
}

NextDeployed ==
    \/ \E From \in Froms, Body \in Bodies : WhatsappWebhook(From, Body)
    \/ Restart

SpecDeployed == InitDeployed /\ [][NextDeployed]_vars

\* ------------------------------------------------------------------------
\* Two worker processes on one database: a request is a sequence of
\* database calls, and the calls of two requests interleave
\* ------------------------------------------------------------------------
\* the inbound texts of overlapping requests
WorkerMessages == {
    <<"/", "l", "e", "s", "s", "o", "n", " ", "a", "r", "t">>,
    <<"/", "n", "e", "x", "t">>,
    <<"i", "n", "d", "i", "a">>
}

\* what the remote service does for the workers
WorkerResponses == {[raised |-> TRUE, content |-> None]}

InitWorkers ==
    /\ users \in {<<>>, OnboardedUsers}
    /\ progress = <<>>
    /\ llm_service = LLMService(FALSE)
    /\ hash_seed \in HashSeeds
    /\ reply = NoReply
    /\ workers \in [Workers -> {Idle(lifespan(api_key, TRUE)) : api_key \in BOOLEAN}]
    /\ before = [users |-> users, progress |-> progress]

\* the session worker w works with: the tables as they are now
SessionOf(w) ==
    [users |-> users, progress |-> progress, llm_service |-> workers[w].llm_service,
     reply |-> NoReply, raised |-> FALSE, fault |-> "none"]

\* worker w ends its request with what the handler left
Done(w, out) ==
    /\ WithinLessons(out)
    /\ users' = out.users
    /\ progress' = out.progress
    /\ workers' = [workers EXCEPT ![w].pc = "done",
                                   ![w].llm_service = out.llm_service,
                                   ![w].reply = out.reply]
    /\ UNCHANGED <<llm_service, hash_seed, reply, before>>

\* two messages arrive, one at each worker
Receive(phone_numbers, bodies) ==
    /\ \A w \in Workers : workers[w].pc \in {"idle", "done"}
    /\ workers' = [w \in Workers |->
                      [Idle(workers[w].llm_service) EXCEPT
                          !.pc = "get_user_by_phone",
                          !.phone_number = phone_numbers[w],
                          !.message = bodies[w]]]
    /\ UNCHANGED <<users, progress, llm_service, hash_seed, reply>>

\* two messages of one phone number arrive, one at each worker
Overlap(phone_number, bodies) ==
    /\ Receive([w \in Workers |-> phone_number], bodies)
    /\ before' = [users |-> users, progress |-> progress]

\* process_message: user = get_user_by_phone(db, phone_number)
GetUserByPhone(w) ==
    /\ workers[w].pc = "get_user_by_phone"
    /\ \E found \in {get_user_by_phone(users, workers[w].phone_number)} :
          workers' = [workers EXCEPT
              ![w].user = found,
              ![w].pc = IF found = None THEN "create_user"
                        ELSE IF ~found[1].is_onboarded THEN "onboarding"
                        ELSE IF CommandOf[workers[w].message] = "next" THEN "get_current_lesson"
                        ELSE "regular"]
    /\ UNCHANGED <<users, progress, llm_service, hash_seed, reply, before>>

\* process_message: user = create_user(db, phone_number), then the welcome
CreateUser(w) ==
    /\ workers[w].pc = "create_user"
    /\ IF IntegrityError(users, workers[w].phone_number)
       THEN Done(w, Caught([SessionOf(w) EXCEPT !.raised = TRUE]))
       ELSE \E created \in {Saved(SessionOf(w), "users",
                                   create_user(users, workers[w].phone_number))} :
               Done(w, Caught(_handle_onboarding(created,
                                  created.users[Len(created.users)],
                                  workers[w].message, TRUE)))

\* _handle_onboarding on the user as it was read
Onboarding(w) ==
    /\ workers[w].pc = "onboarding"
    /\ Done(w, Caught(_handle_onboarding(SessionOf(w), workers[w].user[1],
                                          workers[w].message, FALSE)))

\* _handle_regular_message on the user as it was read, for every command
\* but /next
Regular(w) ==
    /\ workers[w].pc = "regular"
    /\ \E test_ok \in BOOLEAN, response \in WorkerResponses :
          Done(w, Caught(_handle_regular_message(SessionOf(w), workers[w].user[1],
                                                 workers[w].message, hash_seed,
                                                 test_ok, response)))

\* _handle_next_command: current_lesson = get_current_lesson(db, user.id)
GetCurrentLesson(w) ==
    /\ workers[w].pc = "get_current_lesson"
    /\ \E found \in {get_current_lesson(progress, workers[w].user[1].id)} :
          IF found = None
          THEN Done(w, [SessionOf(w) EXCEPT !.reply = Reply("next_no_lesson", <<>>)])
          ELSE /\ workers' = [workers EXCEPT ![w].current_lesson = found,
                                              ![w].pc = "update_progress"]
               /\ UNCHANGED <<users, progress, llm_service, hash_seed, reply, before>>

\* _handle_next_command: the try block on the lesson as it was read
UpdateProgress(w) ==
    /\ workers[w].pc = "update_progress"
    /\ \E test_ok \in BOOLEAN, response \in WorkerResponses :
          Done(w, _handle_next_command_try(SessionOf(w), workers[w].user[1],
                                           workers[w].current_lesson[1],
                                           test_ok, response))

\* a worker takes the next database call of its request
Step(w) ==
    \/ GetUserByPhone(w)
    \/ CreateUser(w)
    \/ Onboarding(w)
    \/ Regular(w)
    \/ GetCurrentLesson(w)
    \/ UpdateProgress(w)

\* the two messages are of one phone number
NextWorkers ==
    \/ \E phone_number \in PhoneNumbers, bodies \in [Workers -> WorkerMessages] :
          Overlap(phone_number, bodies)
    \/ \E w \in Workers : Step(w)

SpecWorkers == InitWorkers /\ [][NextWorkers]_vars

\* the next step of worker w waits for the remote service: the connection
\* test of initialize() or the completion call of generate_lesson, both
\* made without a timeout argument; a service without an API key raises
\* before any call
CallsRemote(w) ==
    /\ workers[w].llm_service.api_key
    /\ \/ workers[w].pc = "update_progress"
       \/ /\ workers[w].pc = "regular"
          /\ CommandOf[workers[w].message] = "lesson"
          /\ LessonTopicOf[workers[w].message] \notin {None, Some(<<>>)}

\* a worker process goes on with its request as long as the step is its
\* own; nothing obliges the remote service to answer
SpecWorkersFair ==
    SpecWorkers /\ \A w \in Workers : WF_vars(Step(w) /\ ~CallsRemote(w))

\* ------------------------------------------------------------------------
\* Two worker processes and two phone numbers
\* ------------------------------------------------------------------------
SecondPhone == <<"+", "4", "4", "7", "7", "0", "0", "0", "0", "0", "2">>

WorkerPhones == PhoneNumbers \cup {SecondPhone}

\* the answers of a second user, aged 14
TeenWalk == [OnboardingWalk EXCEPT ![3] = TeenAge]

\* the users table of a database on which two users completed onboarding
OnboardedPair ==
    Conversation(Conversation(EmptyStore, CHOOSE phone_number \in PhoneNumbers : TRUE,
                              OnboardingWalk),
                 SecondPhone, TeenWalk).users

InitPhones ==
    /\ users \in {<<>>, OnboardedPair}
    /\ progress = <<>>
    /\ llm_service = LLMService(FALSE)
    /\ hash_seed \in HashSeeds
    /\ reply = NoReply
    /\ \E api_key \in BOOLEAN : workers = [w \in Workers |-> Idle(lifespan(api_key, TRUE))]
    /\ before = [users |-> users, progress |-> progress]

\* the two messages are of any phone numbers
NextPhones ==
    \/ \E phone_numbers \in [Workers -> WorkerPhones], bodies \in [Workers -> WorkerMessages] :
          Receive(phone_numbers, bodies) /\ UNCHANGED before
    \/ \E w \in Workers : Step(w)

SpecPhones == InitPhones /\ [][NextPhones]_vars

\* ------------------------------------------------------------------------
\* Properties
\* ------------------------------------------------------------------------
\* every result process_message can return for the message in this state
Outcomes(phone_number, message) ==
    {process_message(Current, phone_number, message, hash_seed, test_ok, response) :
        test_ok \in BOOLEAN, response \in RemoteResponses}

\* the handler left both tables as it found them
StoreUntouched(out) == out.users = users /\ out.progress = progress

StepNumber(step) == CHOOSE k \in 1..Len(OnboardingSteps) : OnboardingSteps[k] = step

\* C1: the first message of a phone number without a User row, whatever its
\* text, is answered with the welcome preamble and the name prompt, and
\* leaves a row for that phone at step 'name', not onboarded, with no name
\* and no other profile answer recorded.
C1_FirstMessageWelcomes ==
    \A phone_number \in PhoneNumbers :
        get_user_by_phone(users, phone_number) = None =>
            \A message \in Messages : \A out \in Outcomes(phone_number, message) :
                /\ out.reply = Reply("welcome", <<get_greeting_emoji(25)>>)
                /\ out.users = Append(users, User(Len(users) + 1, phone_number))
                /\ get_user_by_phone(out.users, phone_number)[1].onboarding_step = "name"
                /\ ~get_user_by_phone(out.users, phone_number)[1].is_onboarded
                /\ get_user_by_phone(out.users, phone_number)[1].name = None
                /\ out.progress = progress

C1_Witness ==
    /\ reply.kind = "welcome"
    /\ \E i \in 1..Len(users) :
          users[i].onboarding_step = "name" /\ users[i].name = None /\ ~users[i].is_onboarded

\* C2: every change of a user's onboarding_step moves it to the next step of
\* name, age, country, subjects, learning_mode, language, completed.
C2_StepsAdvanceByOne ==
    [][\A i \in 1..Len(users) :
          /\ i <= Len(users')
          /\ users'[i].onboarding_step # users[i].onboarding_step =>
                StepNumber(users'[i].onboarding_step) = StepNumber(users[i].onboarding_step) + 1]_vars

C2_Witness ==
    /\ reply.kind = "learning_mode_ok"
    /\ \E i \in 1..Len(users) : users[i].onboarding_step = "language"

\* the input passes the validation of the step
PassesStep(step, message) ==
    IF step = "name" THEN Len(strip(message)) >= 1 /\ Len(strip(message)) <= MaxNameLength
    ELSE IF step = "age" THEN validate_age(message) # None
    ELSE IF step = "country" THEN validate_country(message) # None
    ELSE IF step = "subjects" THEN validate_subjects(message) # <<>>
    ELSE IF step = "learning_mode" THEN validate_learning_mode(message) # None
    ELSE lower(strip(message)) \in AcceptedLanguages

\* per onboarding step, the inputs that pass its validation
ValidAnswers ==
    [step \in {OnboardingSteps[k] : k \in 1..(Len(OnboardingSteps) - 1)} |->
        {message \in Messages : PassesStep(step, message)}]

\* the corrective reply of each onboarding step
Corrective == [step \in DOMAIN ValidAnswers |-> Reply(step \o "_invalid", <<>>)]

\* C3: at every onboarding step an input that fails the step's validation
\* is answered with that step's corrective prompt and leaves the users and
\* progress tables exactly as they were (so repeating it changes nothing).
C3_InvalidInputChangesNothing ==
    \A i \in 1..Len(users) : ~users[i].is_onboarded =>
        \A message \in Messages \ ValidAnswers[users[i].onboarding_step] :
            \A out \in Outcomes(users[i].phone_number, message) :
                /\ out.reply = Corrective[users[i].onboarding_step]
                /\ StoreUntouched(out)

C3_Witness ==
    /\ reply.kind = "age_invalid"
    /\ \E i \in 1..Len(users) :
          users[i].onboarding_step = "age" /\ users[i].age = None /\ users[i].name # None

\* the store and reply after the messages of a sequence, handled in order
\* with the remote service unavailable
RECURSIVE AfterMessages(_, _, _)
AfterMessages(st, phone_number, messages) ==
    IF Len(messages) = 0 THEN st
    ELSE AfterMessages(
            process_message(st, phone_number, Head(messages), hash_seed, FALSE,
                            [raised |-> TRUE, content |-> None]),
            phone_number, Tail(messages))

\* C4: from step name, one valid answer to each of name, age, country,
\* subjects, learning_mode and language, in that order, ends with the user
\* onboarded at step 'completed' and every field holding the validated value
\* of the answer given (language 'en').
C4_FullWalkCompletes ==
    \A i \in 1..Len(users) : users[i].onboarding_step = "name" =>
        \A m1 \in ValidAnswers["name"], m2 \in ValidAnswers["age"],
           m3 \in ValidAnswers["country"], m4 \in ValidAnswers["subjects"],
           m5 \in ValidAnswers["learning_mode"], m6 \in ValidAnswers["language"] :
                LET final == AfterMessages(Current, users[i].phone_number,
                                           <<m1, m2, m3, m4, m5, m6>>).users[i]
                IN /\ final.is_onboarded
                   /\ final.onboarding_step = "completed"
                   /\ final.name = Some(strip(m1))
                   /\ final.age = validate_age(m2)
                   /\ final.country = validate_country(m3)
                   /\ final.preferred_subjects = Some(store_subjects_as_json(validate_subjects(m4)))
                   /\ final.learning_mode = validate_learning_mode(m5)
                   /\ final.language = LanguageEn

C4_Witness ==
    /\ reply.kind = "onboarding_complete"
    /\ \E i \in 1..Len(users) :
          /\ users[i].is_onboarded /\ users[i].onboarding_step = "completed"
          /\ users[i].name # None /\ users[i].age # None /\ users[i].country # None
          /\ users[i].preferred_subjects # None /\ users[i].learning_mode # None
          /\ users[i].language = LanguageEn

\* C5: is_onboarded is true exactly when onboarding_step is 'completed'.
C5_OnboardedIffCompleted ==
    \A i \in 1..Len(users) : users[i].is_onboarded <=> users[i].onboarding_step = "completed"

C5_Witness ==
    \E i \in 1..Len(users) : users[i].is_onboarded /\ users[i].onboarding_step = "completed"

\* C6: once a user is onboarded no message changes any column of its row.
C6_OnboardedUserFrozen ==
    [][\A i \in 1..Len(users) :
          users[i].is_onboarded => i <= Len(users') /\ users'[i] = users[i]]_vars

C6_Witness ==
    /\ reply.kind \in {"help", "lesson", "next", "nudge_little", "nudge_general"}
    /\ \E i \in 1..Len(users) : users[i].is_onboarded

\* the column of the users table that each onboarding step fills
StepField == <<"name", "age", "country", "preferred_subjects", "learning_mode", "language">>

\* C7 as claimed: for a user not yet onboarded, the column of every step
\* before onboarding_step is recorded and the column of onboarding_step and
\* of every later step is not.
C7_AsClaimed ==
    \A i \in 1..Len(users) : ~users[i].is_onboarded =>
        \A k \in 1..Len(StepField) :
            IF k < StepNumber(users[i].onboarding_step)
            THEN users[i][StepField[k]] # None
            ELSE users[i][StepField[k]] = None

\* C7 amended: the same for the columns name, age, country,
\* preferred_subjects and learning_mode; language holds its column default
\* 'en' from the creation of the row.
C7_NextUnansweredField ==
    \A i \in 1..Len(users) : ~users[i].is_onboarded =>
        /\ users[i].language = LanguageEn
        /\ \A k \in 1..(Len(StepField) - 1) :
              IF k < StepNumber(users[i].onboarding_step)
              THEN users[i][StepField[k]] # None
              ELSE users[i][StepField[k]] = None

C7_Witness ==
    \E i \in 1..Len(users) :
        /\ users[i].onboarding_step = "country" /\ ~users[i].is_onboarded
        /\ users[i].name # None /\ users[i].age # None
        /\ users[i].country = None /\ users[i].language = LanguageEn

\* the inputs that are /lesson with a topic
LessonsWithTopic ==
    {message \in Messages :
        /\ startswith(lower(strip(message)), CmdLesson)
        /\ parse_lesson_command(strip(message)) # None
        /\ parse_lesson_command(strip(message)) # Some(<<>>)}

\* the topic of such an input
TopicOf == [message \in LessonsWithTopic |-> parse_lesson_command(strip(message))[1]]
TitleOf == [message \in LessonsWithTopic |-> title(TopicOf[message])]

\* C8: for an onboarded user, /lesson with a topic creates exactly one new
\* Progress row of that user with that topic, lesson_step 1, total_steps 1
\* and not completed, and replies 'Lesson: ' with the title-cased topic.
C8_LessonCreatesOneRow ==
    \A i \in 1..Len(users) : users[i].is_onboarded =>
        \A message \in LessonsWithTopic :
            \A out \in Outcomes(users[i].phone_number, message) :
                LET topic == TopicOf[message]
                IN /\ Len(out.progress) = Len(progress) + 1
                   /\ SubSeq(out.progress, 1, Len(progress)) = progress
                   /\ out.progress[Len(out.progress)].user_id = users[i].id
                   /\ out.progress[Len(out.progress)].topic = topic
                   /\ out.progress[Len(out.progress)].lesson_step = 1
                   /\ out.progress[Len(out.progress)].total_steps = 1
                   /\ ~out.progress[Len(out.progress)].completed
                   /\ out.reply.kind = "lesson"
                   /\ out.reply.args[1] = TitleOf[message]

\* the inputs that are /lesson with nothing but whitespace after it
LessonsWithoutTopic == {message \in Messages : lower(strip(message)) = CmdLesson}

\* the inputs that are /next
NextCommands == {message \in Messages : lower(strip(message)) = CmdNext}

\* C9: for an onboarded user, /lesson with an empty or whitespace-only
\* topic is answered with the 'specify a topic' reply and leaves the users
\* and progress tables as they were.
C9_EmptyTopicChangesNothing ==
    \A i \in 1..Len(users) : users[i].is_onboarded =>
        \A message \in LessonsWithoutTopic :
            \A out \in Outcomes(users[i].phone_number, message) :
                out.reply = Reply("lesson_no_topic", <<>>) /\ StoreUntouched(out)

C9_Witness ==
    /\ reply.kind = "lesson_no_topic"
    /\ \E i \in 1..Len(users) : users[i].is_onboarded

\* C10: for an onboarded user without an incomplete Progress row, /next is
\* answered with the 'no lessons in progress' reply and leaves the users and
\* progress tables as they were.
C10_NextWithoutLesson ==
    \A i \in 1..Len(users) :
        (users[i].is_onboarded /\ get_current_lesson(progress, users[i].id) = None) =>
            \A message \in NextCommands :
                \A out \in Outcomes(users[i].phone_number, message) :
                    out.reply = Reply("next_no_lesson", <<>>) /\ StoreUntouched(out)

C10_Witness ==
    /\ reply.kind = "next_no_lesson"
    /\ progress = <<>>
    /\ \E i \in 1..Len(users) : users[i].is_onboarded

\* ------------------------------------------------------------------------
\* Properties of lessons, failures and the webhook
\* ------------------------------------------------------------------------
FromOf(phone_number) == WhatsappPrefix \o phone_number

\* every response the webhook can give to the message in this state,
\* whatever database call raises and whatever the remote service does
Handled(From, Body) ==
    {whatsapp_webhook(Session(fault), From, Body, hash_seed, test_ok, response) :
        fault \in Faults, test_ok \in BOOLEAN, response \in RemoteResponses}

\* the incomplete Progress rows of a user, by position
Incomplete(user_id) ==
    {k \in 1..Len(progress) : progress[k].user_id = user_id /\ ~progress[k].completed}

\* C11: for an onboarded user with an incomplete Progress row, every /next
\* answered with the next part leaves the number of Progress rows as it
\* was and changes exactly one incomplete row of the user, which keeps its
\* id, has lesson_step one higher and holds the content of the reply.
C11_NextAdvancesSameRow ==
    \A i \in 1..Len(users) : (users[i].is_onboarded /\ Incomplete(users[i].id) # {}) =>
        \A Body \in NextCommands :
            \A out \in Handled(FromOf(users[i].phone_number), Body) :
                out.twiml[1].kind = "next" =>
                    /\ Len(out.store.progress) = Len(progress)
                    /\ \E k \in Incomplete(users[i].id) :
                          /\ out.store.progress[k] =
                                [progress[k] EXCEPT !.lesson_step = @ + 1,
                                                    !.lesson_content = out.twiml[1].args[3]]
                          /\ out.store.progress[k].id = progress[k].id
                          /\ \A j \in 1..Len(progress) :
                                j # k => out.store.progress[j] = progress[j]

C11_Witness ==
    /\ reply.kind = "next"
    /\ \E k \in 1..Len(progress) :
          /\ progress[k].lesson_step = 2
          /\ progress[k].lesson_content = reply.args[3]
          /\ progress[k].id = k

\* C12: when a user has several incomplete Progress rows, whatever /next
\* changes is the most recently created of them, every other row stays as
\* it was, and a /next answered with the next part does change that row.
C12_NextTargetsNewest ==
    \A i \in 1..Len(users) :
        (users[i].is_onboarded /\ Cardinality(Incomplete(users[i].id)) >= 2) =>
            \A Body \in NextCommands :
                \A out \in Handled(FromOf(users[i].phone_number), Body) :
                    LET newest == CHOOSE k \in Incomplete(users[i].id) :
                                      \A j \in Incomplete(users[i].id) :
                                          progress[j].created_at <= progress[k].created_at
                    IN /\ Len(out.store.progress) = Len(progress)
                       /\ \A j \in 1..Len(progress) :
                             j # newest => out.store.progress[j] = progress[j]
                       /\ out.twiml[1].kind = "next" =>
                             out.store.progress[newest].lesson_step =
                                 progress[newest].lesson_step + 1

C12_Witness ==
    /\ reply.kind = "next"
    /\ Len(progress) = 2
    /\ progress[1].user_id = progress[2].user_id
    /\ ~progress[1].completed /\ ~progress[2].completed
    /\ progress[1].lesson_step = 1
    /\ progress[2].lesson_step = 2

\* the database calls whose failure lets /next reach generate_lesson
FaultsPastQueries == Faults \ {"get_user_by_phone", "get_current_lesson"}

C14_GenerateLessonNeverRaises ==
    \A topic \in AllTopics, test_ok \in BOOLEAN, response \in RemoteResponses :
        ~generate_lesson(llm_service, topic, Some(25), None, test_ok, response).raised

\* the remote call cannot be made or fails
Unavailable(svc, test_ok, response) ==
    \/ ~svc.initialized /\ (~svc.api_key \/ ~test_ok)
    \/ response.raised

\* the words of the canned lessons that tell them apart
fallback_mentions == <<
    {"pizza", "chocolate"},
    {"apples", "toy cars"},
    {"solar panels", "oxygen"},
    {"recipes", "marbles"},
    {"merry-go-round", "Neptune"}
>>

\* the text holds the word
Mentions(content, word) ==
    /\ content.source = "canned"
    /\ \E k \in 1..Len(fallback_keys) :
          fallback_keys[k] = content.text /\ word \in fallback_mentions[k]

\* C15: when the remote call is unavailable, generate_lesson returns the
\* canned lesson of the first key of the fallback dictionary found in the
\* lower-cased topic (the one that mentions pizza for a topic holding
\* 'fractions'), and the generic template around the topic when no key is
\* found.
C15_FallbackWhenUnavailable ==
    \A topic \in AllTopics, test_ok \in BOOLEAN, response \in RemoteResponses :
        Unavailable(llm_service, test_ok, response) =>
            \A gen \in {generate_lesson(llm_service, topic, Some(25), None, test_ok, response)} :
                /\ ~gen.raised
                /\ IF \E k \in 1..Len(fallback_keys) : contains(lower(topic), fallback_keys[k])
                   THEN /\ gen.content.source = "canned"
                        /\ contains(lower(topic), gen.content.text)
                        /\ \A k \in 1..Len(fallback_keys) :
                              contains(lower(topic), fallback_keys[k]) =>
                                  \E n \in 1..k : fallback_keys[n] = gen.content.text
                   ELSE gen.content = [source |-> "generic", text |-> topic]
                /\ contains(lower(topic), fallback_keys[1]) => Mentions(gen.content, "pizza")

\* the replies that tell the user of a failure
FailureReplies == {"technical_difficulties", "lesson_failed", "next_failed", "webhook_difficulties"}

\* C16: a message whose handling fails, at whatever point, leaves the users
\* and progress tables as they were before the message.
C16_FailedTurnLeavesStore ==
    \A From \in Froms, Body \in LessonMessages :
        \A out \in Handled(From, Body) :
            out.twiml[1].kind \in FailureReplies =>
                out.store.users = users /\ out.store.progress = progress

\* C17: process_message ends without an exception, and with the lesson
\* service initialized every failure it tells the user of is told by the
\* technical-difficulties reply of its own except clause.
C17_TopLevelSoleBoundary ==
    llm_service.initialized =>
        \A phone_number \in PhoneNumbers, Body \in LessonMessages, fault \in Faults,
           test_ok \in BOOLEAN, response \in RemoteResponses :
            \A out \in {process_message(Session(fault), phone_number, Body, hash_seed,
                                         test_ok, response)} :
                /\ ~out.raised
                /\ out.reply.kind \in FailureReplies => out.reply = TechnicalDifficulties

\* C20: the webhook answers every (From, Body) with status 200 and a TwiML
\* document of exactly one message, also when a database call raises, when
\* the lesson cannot be generated and when From holds no phone number.
C20_OneReplyPerMessage ==
    \A From \in Froms, Body \in LessonMessages :
        \A out \in Handled(From, Body) :
            /\ out.status = 200
            /\ Len(out.twiml) = 1
            /\ out.twiml[1].kind # "none"

C20_Witness ==
    /\ reply = WebhookDifficulties
    /\ \E i \in 1..Len(users) : users[i].is_onboarded

\* ------------------------------------------------------------------------
\* Overlapping requests of one phone number
\* ------------------------------------------------------------------------
AllDone == \A w \in Workers : workers[w].pc = "done"

\* the tables a session holds
TablesOf(st) == [users |-> st.users, progress |-> st.progress]

\* the request of worker w handled from start to end on the session st
Alone(st, w, test_ok) ==
    process_message([st EXCEPT !.llm_service = workers[w].llm_service],
                    workers[w].phone_number, workers[w].message, hash_seed, test_ok,
                    [raised |-> TRUE, content |-> None])

\* the tables after the two requests, one completed before the other began
SerialTables ==
    {TablesOf(Alone(Alone([Session("none") EXCEPT !.users = before.users,
                                                  !.progress = before.progress],
                          first, first_ok),
                    second, second_ok)) :
        first \in Workers, second \in Workers, first_ok \in BOOLEAN, second_ok \in BOOLEAN}

\* neither request was answered with the apology of process_message
AllServed ==
    AllDone /\ \A w \in Workers : workers[w].reply # TechnicalDifficulties

\* C18: when two overlapping requests of one phone number have both been
\* served, the tables are what they would be had one request completed
\* before the other began: no update is lost, no step skipped or applied twice
C18_OverlapSerializes ==
    AllServed => [users |-> users, progress |-> progress] \in SerialTables

\* C19: no two rows of the users table hold the same phone number, also
\* when two first messages of a phone number are handled at once
C19_OneUserPerPhone ==
    \A i \in 1..Len(users), j \in 1..Len(users) :
        users[i].phone_number = users[j].phone_number => i = j

\* two first messages of a phone number overlapped: both workers found no
\* user, one inserted the row and the other's insert was refused
C19_Witness ==
    /\ AllDone
    /\ before.users = <<>>
    /\ \A w \in Workers : workers[w].user = None
    /\ \E w \in Workers : workers[w].reply = TechnicalDifficulties
    /\ \E w \in Workers : workers[w].reply # TechnicalDifficulties
    /\ Len(users) = 1

\* ------------------------------------------------------------------------
\* Free text, routing and validation
\* ------------------------------------------------------------------------
\* C21: the template a phone number is answered with is fixed by the phone
\* number: whenever one phone number's free text is answered with one of
\* the three templates twice in a row, also across a restart of the
\* process, the same template is chosen.
C21_TemplateByPhoneAlone ==
    [][(reply.kind = "nudge_general" /\ reply'.kind = "nudge_general")
          => reply'.args[1] = reply.args[1]]_vars

\* the message is the command: the command word alone or followed by
\* whitespace
IsCommand(message, cmd) ==
    LET m == lower(strip(message))
    IN m = cmd \/ (startswith(m, cmd) /\ m[Len(cmd) + 1] \in Whitespace)

\* per inbound text, the command it is, or "general"
ExactCommandOf ==
    [message \in Inputs |->
        IF IsCommand(message, CmdHelp) THEN "help"
        ELSE IF IsCommand(message, CmdLesson) THEN "lesson"
        ELSE IF IsCommand(message, CmdNext) THEN "next"
        ELSE "general"]

\* the handler a reply comes from
RouteOf(kind) ==
    IF kind = "help" THEN "help"
    ELSE IF kind \in {"lesson", "lesson_failed", "lesson_no_topic"} THEN "lesson"
    ELSE IF kind \in {"next", "next_failed", "next_no_lesson"} THEN "next"
    ELSE IF kind \in {"suggest_lesson", "nudge_little", "nudge_study", "nudge_general"}
    THEN "general"
    ELSE "none"

\* C22: for an onboarded user, a message is answered by the /help, /lesson
\* or /next handler only when it is that command; every other text, also
\* one that only begins with a command word, is answered as free text.
C22_CommandsRoutedExactly ==
    \A i \in 1..Len(users) :
        users[i].is_onboarded =>
            \A message \in Inputs :
                \A out \in Outcomes(users[i].phone_number, message) :
                    RouteOf(out.reply.kind) = ExactCommandOf[message]

\* str(a): the decimal text of an integer
RECURSIVE DecimalText(_)
DecimalText(a) ==
    IF a < 0 THEN <<"-">> \o DecimalText(0 - a)
    ELSE IF a < 10 THEN <<Digits[a + 1]>>
    ELSE DecimalText(a \div 10) \o <<Digits[(a % 10) + 1]>>

\* the integers whose decimal text validate_age is tried on
ProbedIntegers == (0 - 25)..(MaxAge + 25)

\* texts that are no number: not a digit in them
NonNumeric == {message \in Inputs : \A i \in 1..Len(message) : ~IsDigit(message[i])}

ValidateAgeByRange ==
    \A a \in ProbedIntegers :
        validate_age(DecimalText(a)) = (IF MinAge <= a /\ a <= MaxAge THEN Some(a) ELSE None)

ValidateAgeRejectsText ==
    \A message \in NonNumeric : validate_age(message) = None

\* C23: validate_age returns a for the decimal text of every integer a
\* from 3 to 100 and None for every integer below 3 or above 100 and for
\* text that is no number; every age stored in the users table lies in
\* 3..100.
C23_AgeWithinRange ==
    /\ ValidateAgeByRange
    /\ ValidateAgeRejectsText
    /\ \A i \in 1..Len(users) :
          users[i].age # None => MinAge <= users[i].age[1] /\ users[i].age[1] <= MaxAge

\* the age step stored an age it was given with a leading blank or zeros
C23_Witness ==
    /\ reply.kind = "age_ok"
    /\ \E i \in 1..Len(users) :
          users[i].age = Some(7) /\ users[i].onboarding_step = "country"

\* ------------------------------------------------------------------------
\* Remote responses
\* ------------------------------------------------------------------------
\* the remote responses without content or with fewer than 50 characters
ShortResponses ==
    {response \in RemoteResponses :
        ~response.raised /\ (response.content = None
                             \/ response.content[1].chars < MinLessonChars)}

\* C24: when the remote generation call answers without content or with
\* fewer than 50 characters, generate_lesson does not return that answer:
\* what it returns is the fallback lesson of the topic.
C24_ShortResponseFallsBack ==
    \A topic \in AllTopics, test_ok \in BOOLEAN, response \in ShortResponses :
        \A gen \in {generate_lesson(llm_service, topic, Some(25), None, test_ok, response)} :
            ~gen.raised => gen.content = get_fallback_lesson(topic, 25)

\* a lesson was answered with the fallback lesson by a service that is
\* initialized, as it is after a short remote response
C24_Witness ==
    /\ llm_service.initialized /\ llm_service.client
    /\ reply.kind = "lesson"
    /\ reply.args[2].source # "remote"
    /\ \E k \in 1..Len(progress) :
          /\ progress[k].lesson_content = reply.args[2]
          /\ \E response \in ShortResponses :
                generate_lesson(llm_service, progress[k].topic, Some(25), None, TRUE,
                                response).content = reply.args[2]

\* ------------------------------------------------------------------------
\* Two phone numbers
\* ------------------------------------------------------------------------
\* worker w answered the free text of an onboarded user that asks for no
\* lesson
AnsweredFreeText(w) ==
    /\ workers[w].pc = "done"
    /\ workers[w].user # None
    /\ workers[w].user[1].is_onboarded
    /\ CommandOf[workers[w].message] = "general"
    /\ SuggestionOf[workers[w].message] = None

\* C25: free text that asks for no lesson is answered with one of the three
\* templates picked by the hash of the phone number exactly when the user is
\* older than 16; a user of 16 or younger is answered by age band alone.
C25_HashAboveSixteen ==
    \A w \in Workers :
        AnsweredFreeText(w) =>
            (workers[w].reply.kind = "nudge_general" <=> workers[w].user[1].age[1] > 16)

\* the User row of a phone number and the Progress rows of that user
RecordsOf(us, pr, phone_number) ==
    [user |-> get_user_by_phone(us, phone_number),
     progress |-> {pr[k] : k \in {j \in 1..Len(pr) :
                       get_user_by_phone(us, phone_number) # None
                       /\ pr[j].user_id = get_user_by_phone(us, phone_number)[1].id}}]

\* C26: a database call made for the message of one phone number leaves the
\* User row and the Progress rows of every other phone number as they are,
\* however the calls of two requests interleave.
C26_OtherPhonesUntouched ==
    [][\A phone_number \in WorkerPhones :
          (\A w \in Workers :
              workers'[w] # workers[w] => workers'[w].phone_number # phone_number)
          => RecordsOf(users', progress', phone_number)
                 = RecordsOf(users, progress, phone_number)]_vars

\* requests of two phone numbers overlapped and were both answered, one of
\* them a /next that advanced its user's lesson next to the other user's
C26_Witness ==
    /\ AllDone
    /\ \E v \in Workers, w \in Workers :
          /\ workers[v].phone_number # workers[w].phone_number
          /\ workers[v].reply.kind = "next"
          /\ workers[w].reply.kind \in {"lesson", "next"}
    /\ \E j \in 1..Len(progress), k \in 1..Len(progress) :
          /\ progress[j].user_id # progress[k].user_id
          /\ progress[j].lesson_step = 2
          /\ progress[k].lesson_step = 1

\* ------------------------------------------------------------------------
\* Progress rows over time
\* ------------------------------------------------------------------------
\* the identifiers of the Progress rows of each user
ProgressIds(pr) == {<<pr[k].user_id, pr[k].id>> : k \in 1..Len(pr)}

\* C27: no message, failed database call or restart removes a Progress row:
\* the identifiers of the Progress rows of a user only grow.
C27_ProgressOnlyGrows ==
    [][ProgressIds(progress) \subseteq ProgressIds(progress')]_vars

\* a second lesson was created and the first is still there
C27_Witness ==
    /\ reply.kind = "lesson"
    /\ Len(progress) = 2
    /\ ProgressIds(progress) = {<<progress[1].user_id, 1>>, <<progress[1].user_id, 2>>}

\* ------------------------------------------------------------------------
\* Termination of a turn
\* ------------------------------------------------------------------------
\* C28: every message a worker has received is answered in the end, also
\* when the remote service never answers.
C28_EveryTurnReplies ==
    \A w \in Workers :
        (workers[w].pc = "get_user_by_phone") ~> (workers[w].pc = "done")

\* ------------------------------------------------------------------------
\* Progress rows and their users
\* ------------------------------------------------------------------------
\* the inbound texts that begin with /help, /lesson or /next
CommandMessages == {message \in Messages : CommandOf[message] # "general"}

\* C29: every Progress row belongs to an onboarded user; for a user who is
\* not onboarded, a message that begins with /help, /lesson or /next is
\* answered by the onboarding step and leaves the progress table as it is.
C29_ProgressOnlyForOnboarded ==
    /\ \A k \in 1..Len(progress) :
          \E i \in 1..Len(users) :
              users[i].id = progress[k].user_id /\ users[i].is_onboarded
    /\ \A i \in 1..Len(users) :
          ~users[i].is_onboarded =>
              \A message \in CommandMessages :
                  \A out \in Outcomes(users[i].phone_number, message) :
                      /\ out.progress = progress
                      /\ RouteOf(out.reply.kind) = "none"

\* a command was taken as the name of a user who is not onboarded
C29_Witness ==
    /\ reply.kind = "name_ok"
    /\ progress = <<>>
    /\ \E i \in 1..Len(users) :
          /\ ~users[i].is_onboarded
          /\ users[i].onboarding_step = "age"
          /\ users[i].name \in {Some(StripOf[message]) : message \in CommandMessages}

\* C30: every Progress row has completed = false and total_steps = 1 and a
\* lesson_step of at least 1; no step removes a row, changes its total_steps
\* or lowers its lesson_step, which so goes beyond total_steps.
C30_NeverCompleted ==
    /\ [](\A k \in 1..Len(progress) :
            /\ ~progress[k].completed
            /\ progress[k].total_steps = 1
            /\ progress[k].lesson_step >= 1)
    /\ [][\A k \in 1..Len(progress) :
            /\ k <= Len(progress')
            /\ progress'[k].total_steps = progress[k].total_steps
            /\ progress'[k].lesson_step >= progress[k].lesson_step]_vars

\* /next took a lesson beyond its total_steps and the row is not completed
C30_Witness ==
    /\ reply.kind = "next"
    /\ \E k \in 1..Len(progress) :
          /\ progress[k].lesson_step = 2
          /\ progress[k].lesson_step > progress[k].total_steps
          /\ ~progress[k].completed


\* ------------------------------------------------------------------------
\* Writes of one request, and the generator's flag
\* ------------------------------------------------------------------------
\* the rows of a table that a request added or changed
RowsWritten(old, new) ==
    {i \in 1..Len(new) : i > Len(old) \/ new[i] # old[i]}

\* how many rows of the two tables the request left added or changed
CommittedWrites(st) ==
    Cardinality(RowsWritten(users, st.users)) + Cardinality(RowsWritten(progress, st.progress))

\* the phone number's user has completed onboarding before the request
OnboardedAt(phone_number) ==
    \E i \in 1..Len(users) : users[i].phone_number = phone_number /\ users[i].is_onboarded

\* C31: handling one inbound message leaves at most one row added or
\* changed in the two tables, whatever database call raises and whatever
\* the remote service does, and leaves none when an onboarded user sends
\* /help or a text that is not a command.
C31_AtMostOneWrite ==
    \A phone_number \in PhoneNumbers, message \in Inputs :
        \A out \in Handled(FromOf(phone_number), message) :
            /\ CommittedWrites(out.store) <= 1
            /\ (OnboardedAt(phone_number) /\ ExactCommandOf[message] \in {"help", "general"})
                  => CommittedWrites(out.store) = 0

\* every result of handling the message in this state when the connection
\* test of initialize() answers (test_ok) or fails
Generated(phone_number, message, test_ok) ==
    {process_message(Current, phone_number, message, hash_seed, test_ok, response) :
        response \in RemoteResponses}

\* the inbound texts that _handle_regular_message hands to the /lesson or
\* the /next handler, the two callers of generate_lesson
GeneratingMessages == {message \in Messages : CommandOf[message] \in {"lesson", "next"}}

\* what a call of generate_lesson leaves when the flag is set: the service
\* as it was and a lesson, whatever a connection test would answer
NoAttempt(out) ==
    /\ out.llm_service = llm_service
    /\ out.reply.kind \in {"lesson", "next"}

\* what a call of generate_lesson leaves when the flag is not set: the
\* outcome of a new initialize(), which sets the flag when there is a key
\* and the connection test answers, and raises otherwise
Reattempted(out, test_ok) ==
    /\ out.llm_service.initialized = (llm_service.api_key /\ test_ok)
    /\ (out.reply.kind \in {"lesson_failed", "next_failed"}) = ~(llm_service.api_key /\ test_ok)

\* C32: the initialized flag of the generator never goes back to false
\* while the process runs (only a restart constructs a new LLMService);
\* a message whose handling calls generate_lesson makes no initialization
\* attempt when the flag is set, and makes a new attempt each time the flag
\* is not set, also after an attempt that failed.
C32_InitializedMonotone ==
    /\ [](\A phone_number \in PhoneNumbers, message \in GeneratingMessages, test_ok \in BOOLEAN :
            \A out \in Generated(phone_number, message, test_ok) :
                out.reply.kind \in GeneratedReplies =>
                    IF llm_service.initialized THEN NoAttempt(out)
                    ELSE Reattempted(out, test_ok))
    /\ [][(llm_service.initialized /\ ~llm_service'.initialized) => Restart]_vars

\* a call of generate_lesson has just failed in initialize(), after the
\* client was built
C32_Witness ==
    /\ ~llm_service.initialized
    /\ llm_service.client
    /\ reply.kind \in {"lesson_failed", "next_failed"}

====
